---- MODULE Spec2Model ----
(***************************************************************************)
(* Model of organism.h: the Organism class template, the encounter         *)
(* function template and the encounter_series function template.           *)
(*                                                                         *)
(* An Organism<species_t, can_eat_meat, can_eat_plants> object is a record *)
(* [species, can_eat_meat, can_eat_plants, vitality]; the two template     *)
(* flags are carried as fields.  vitality_t is uint64_t in the source; the *)
(* model keeps the unsigned wrap-around of its arithmetic at a width of    *)
(* VitalityBits bits.                                                      *)
(***************************************************************************)
EXTENDS Integers, Sequences, FiniteSets

\* Width of vitality_t in the model (uint64_t in the source).
VitalityBits == 4

\* Largest number of trailing arguments given to encounter_series.
MaxArgs == 2

Modulus == 2 ^ VitalityBits

MaxVitality == Modulus - 1

Vitalities == 0 .. MaxVitality

\* Sample values of species_t; operator== of species_t is equality of values.
Species == {"lion", "gazelle"}

VARIABLES organism1, organism2, outcome, ret,
          series_first, series_args, series_outcome, series_ret

vars == <<organism1, organism2, outcome, ret,
          series_first, series_args, series_outcome, series_ret>>

----------------------------------------------------------------------------
(* class Organism *)

\* The constructor Organism(species, vitality) of Organism<species_t, m, p>.
Organism(species, can_eat_meat, can_eat_plants, vitality) ==
  [species |-> species, can_eat_meat |-> can_eat_meat,
   can_eat_plants |-> can_eat_plants, vitality |-> vitality]

Carnivore(species, vitality) == Organism(species, TRUE, FALSE, vitality)

Omnivore(species, vitality) == Organism(species, TRUE, TRUE, vitality)

Herbivore(species, vitality) == Organism(species, FALSE, TRUE, vitality)

Plant(species, vitality) == Organism(species, FALSE, FALSE, vitality)

get_vitality(this) == this.vitality

get_species(this) == this.species

is_dead(this) == this.vitality = 0

is_plant(this) == ~this.can_eat_meat /\ ~this.can_eat_plants

can_eat(this, that) ==
  IF this.can_eat_meat /\ ~is_plant(that) THEN TRUE
  ELSE IF this.can_eat_plants /\ is_plant(that) THEN TRUE
  ELSE FALSE

are_species_equal(this, other) ==
  /\ this.species = get_species(other)
  /\ this.can_eat_meat = other.can_eat_meat
  /\ this.can_eat_plants = other.can_eat_plants

set_vitality(this, new_vitality) ==
  Organism(this.species, this.can_eat_meat, this.can_eat_plants, new_vitality)

\* get_vitality() + change is an addition of two uint64_t: it wraps.
add_vitality(this, change) ==
  set_vitality(this, (get_vitality(this) + change) % Modulus)

kill(this) == set_vitality(this, 0)

----------------------------------------------------------------------------
(* encounter *)

\* std::nullopt and an engaged std::optional<Organism>.
nullopt == <<>>

some(organism) == <<organism>>

\* What a call comes to: a returned value, a program rejected by the
\* static_assert (no call exists), or the logic_error thrown.
Returned(value) == [status |-> "returned", value |-> value]

Rejected == [status |-> "rejected", value |-> <<>>]

Thrown == [status |-> "thrown", value |-> <<>>]

nothing_happens(o1, o2) == <<o1, o2, nullopt>>

\* A faulty variant of the static_assert: a check made only after the
\* dead-party rule has let the dead through.
static_assert_after_dead_rule(o1, o2) ==
  is_dead(o1) \/ is_dead(o2) \/ ~is_plant(o1) \/ ~is_plant(o2)

\* static_assert(!organism1.is_plant() || !organism2.is_plant())
static_assert_holds(o1, o2) == ~is_plant(o1) \/ ~is_plant(o2)

\* A faulty variant of rule 3: && for ||.
both_are_dead(o1, o2) == is_dead(o1) /\ is_dead(o2)

\* Rule 3: one of the parties is dead.
either_is_dead(o1, o2) == is_dead(o1) \/ is_dead(o2)

\* Rule 4: the child of two organisms of the same species.
child_vitality(o1, o2) ==
  ((get_vitality(o1) + get_vitality(o2)) % Modulus) \div 2

child(o1, o2) ==
  Organism(get_species(o1), o1.can_eat_meat, o1.can_eat_plants,
           child_vitality(o1, o2))

\* A faulty variant of rule 5: organism2 asked whether it can eat itself.
neither_can_eat_typo(o1, o2) == ~can_eat(o1, o2) /\ ~can_eat(o2, o2)

\* Rule 5: neither can eat the other.
neither_can_eat(o1, o2) == ~can_eat(o1, o2) /\ ~can_eat(o2, o1)

\* Rule 6: two animals that can eat each other fight.
can_fight(o1, o2) ==
  /\ ~is_plant(o1) /\ ~is_plant(o2)
  /\ can_eat(o1, o2) /\ can_eat(o2, o1)

organism1_dies(o1, o2) == get_vitality(o2) >= get_vitality(o1)

\* A faulty variant of organism2_dies: > for >=.
organism2_dies_strict(o1, o2) == get_vitality(o1) > get_vitality(o2)

organism2_dies(o1, o2) == get_vitality(o1) >= get_vitality(o2)

fight(o1, o2) ==
  << IF organism1_dies(o1, o2) THEN kill(o1)
     ELSE add_vitality(o1, get_vitality(o2) \div 2),
     IF organism2_dies(o1, o2) THEN kill(o2)
     ELSE add_vitality(o2, get_vitality(o1) \div 2),
     nullopt >>

\* Rule 7: a plant is eaten by an organism that can eat it.
eat_plant2(o1, o2) ==
  <<add_vitality(o1, get_vitality(o2)), kill(o2), nullopt>>

eat_plant1(o1, o2) ==
  <<kill(o1), add_vitality(o2, get_vitality(o1)), nullopt>>

\* Rule 8: only one of the two can eat the other.
hunt2(o1, o2) ==
  IF get_vitality(o2) >= get_vitality(o1) THEN nothing_happens(o1, o2)
  ELSE <<add_vitality(o1, get_vitality(o2) \div 2), kill(o2), nullopt>>

hunt1(o1, o2) ==
  IF get_vitality(o1) >= get_vitality(o2) THEN nothing_happens(o1, o2)
  ELSE <<kill(o1), add_vitality(o2, get_vitality(o1) \div 2), nullopt>>

\* The rule that decides encounter(o1, o2), in the order of the if statements.
rule(o1, o2) ==
  IF ~static_assert_holds(o1, o2) THEN "static_assert"
  ELSE IF either_is_dead(o1, o2) THEN "dead"
  ELSE IF are_species_equal(o1, o2) THEN "mating"
  ELSE IF neither_can_eat(o1, o2) THEN "cannot_eat"
  ELSE IF can_fight(o1, o2) THEN "fight"
  ELSE IF is_plant(o2) /\ can_eat(o1, o2) THEN "eat_plant2"
  ELSE IF is_plant(o1) /\ can_eat(o2, o1) THEN "eat_plant1"
  ELSE IF can_eat(o1, o2) THEN "hunt2"
  ELSE IF can_eat(o2, o1) THEN "hunt1"
  ELSE "throw"

encounter(o1, o2) ==
  LET r == rule(o1, o2) IN
  CASE r = "static_assert" -> Rejected
    [] r = "dead" -> Returned(nothing_happens(o1, o2))
    [] r = "mating" -> Returned(<<o1, o2, some(child(o1, o2))>>)
    [] r = "cannot_eat" -> Returned(nothing_happens(o1, o2))
    [] r = "fight" -> Returned(fight(o1, o2))
    [] r = "eat_plant2" -> Returned(eat_plant2(o1, o2))
    [] r = "eat_plant1" -> Returned(eat_plant1(o1, o2))
    [] r = "hunt2" -> Returned(hunt2(o1, o2))
    [] r = "hunt1" -> Returned(hunt1(o1, o2))
    [] OTHER -> Thrown

----------------------------------------------------------------------------
(* encounter_series *)

\* A faulty variant of encounter_series: the recursion is given organism1
\* as it was, not as the encounter returned it.
RECURSIVE encounter_series_stale(_, _)
encounter_series_stale(o1, args) ==
  IF args = <<>> THEN Returned(<<o1>>)
  ELSE LET e == encounter(o1, Head(args)) IN
       IF e.status # "returned" THEN [status |-> e.status, value |-> <<>>]
       ELSE encounter_series_stale(o1, Tail(args))

RECURSIVE encounter_series(_, _)
encounter_series(o1, args) ==
  IF args = <<>> THEN Returned(<<o1>>)
  ELSE LET e == encounter(o1, Head(args)) IN
       IF e.status # "returned" THEN [status |-> e.status, value |-> <<>>]
       ELSE encounter_series(e.value[1], Tail(args))

----------------------------------------------------------------------------
(* The calls *)

Diets == {<<TRUE, FALSE>>, <<TRUE, TRUE>>, <<FALSE, TRUE>>, <<FALSE, FALSE>>}

Organisms ==
  {Organism(s, d[1], d[2], v) : s \in Species, d \in Diets, v \in Vitalities}

\* The vitalities of the arguments of encounter_series.
SeriesVitalities == {0, 1, 2, MaxVitality}

SeriesOrganisms ==
  {Organism(s, d[1], d[2], v) :
     s \in Species, d \in Diets, v \in SeriesVitalities}

Idle == Plant("gazelle", 0)

Init ==
  /\ organism1 \in Organisms
  /\ organism2 \in Organisms
  /\ outcome = "pending"
  /\ ret = <<>>
  /\ series_first = Idle
  /\ series_args = <<>>
  /\ series_outcome = "unused"
  /\ series_ret = <<>>

\* encounter(organism1, organism2) is called; the arguments are passed by
\* value and stay as they are.
CallEncounter ==
  /\ outcome = "pending"
  /\ LET e == encounter(organism1, organism2) IN
       /\ outcome' = e.status
       /\ ret' = e.value
  /\ UNCHANGED <<organism1, organism2, series_first, series_args,
                 series_outcome, series_ret>>

Next == CallEncounter

Spec == Init /\ [][Next]_vars

\* The code reads a species only through ==, so the first organism's species
\* is fixed and the arguments range over an equal and a different one.
SeriesInit ==
  /\ organism1 = Idle
  /\ organism2 = Idle
  /\ outcome = "unused"
  /\ ret = <<>>
  /\ series_first \in {o \in SeriesOrganisms : o.species = "lion"}
  /\ series_args \in UNION {[1 .. n -> SeriesOrganisms] : n \in 0 .. MaxArgs}
  /\ series_outcome = "pending"
  /\ series_ret = <<>>

\* encounter_series(series_first, series_args...) is called.
CallEncounterSeries ==
  /\ series_outcome = "pending"
  /\ LET e == encounter_series(series_first, series_args) IN
       /\ series_outcome' = e.status
       /\ series_ret' = e.value
  /\ UNCHANGED <<organism1, organism2, outcome, ret, series_first,
                 series_args>>

SeriesNext == CallEncounterSeries

SeriesSpec == SeriesInit /\ [][SeriesNext]_vars

----------------------------------------------------------------------------
(* Properties of encounter *)

Called == outcome # "pending"

BothPlants ==
  /\ ~organism1.can_eat_meat /\ ~organism1.can_eat_plants
  /\ ~organism2.can_eat_meat /\ ~organism2.can_eat_plants

BothAlive == organism1.vitality > 0 /\ organism2.vitality > 0

SameDiet ==
  /\ organism1.can_eat_meat = organism2.can_eat_meat
  /\ organism1.can_eat_plants = organism2.can_eat_plants

SameSpecies == organism1.species = organism2.species /\ SameDiet

Organism1IsPlant == ~organism1.can_eat_meat /\ ~organism1.can_eat_plants

Organism2IsPlant == ~organism2.can_eat_meat /\ ~organism2.can_eat_plants

WithVitality(o, v) == [o EXCEPT !.vitality = v]

Unchanged == <<organism1, organism2, <<>>>>

\* C1: when either party is dead (and the two are not both plants),
\* encounter returns both parties exactly as given and no offspring.
C1_DeadPartyUnchanged ==
  (Called /\ ~BothPlants /\ (organism1.vitality = 0 \/ organism2.vitality = 0))
    => (outcome = "returned" /\ ret = Unchanged)

\* A dead organism met a live one of its own species: without the dead-party
\* rule the two would have mated.
C1_Witness ==
  /\ outcome = "returned"
  /\ organism1.vitality = 0 /\ organism2.vitality > 0
  /\ SameSpecies /\ ~BothPlants

MatingCase == Called /\ ~BothPlants /\ BothAlive /\ SameSpecies

\* C2: two live organisms of the same species value and the same diet come
\* back unchanged with an offspring of organism1's species and diet whose
\* vitality is exactly floor((v1 + v2) / 2), for all vitalities of the width.
C2_OffspringIsExactMean ==
  MatingCase =>
    /\ outcome = "returned"
    /\ ret = <<organism1, organism2,
               <<WithVitality(organism1,
                   (organism1.vitality + organism2.vitality) \div 2)>> >>

\* The same statement for the pairs whose sum of vitalities fits the width.
C2_OffspringIsMeanWithinRange ==
  (MatingCase /\ organism1.vitality + organism2.vitality <= MaxVitality) =>
    /\ outcome = "returned"
    /\ ret = <<organism1, organism2,
               <<WithVitality(organism1,
                   (organism1.vitality + organism2.vitality) \div 2)>> >>

FightCase ==
  /\ Called /\ BothAlive /\ ~SameSpecies
  /\ organism1.can_eat_meat /\ organism2.can_eat_meat

FightExpected ==
  IF organism1.vitality = organism2.vitality
    THEN <<WithVitality(organism1, 0), WithVitality(organism2, 0), <<>>>>
  ELSE IF organism1.vitality > organism2.vitality
    THEN <<WithVitality(organism1,
             organism1.vitality + (organism2.vitality \div 2)),
           WithVitality(organism2, 0), <<>>>>
  ELSE <<WithVitality(organism1, 0),
         WithVitality(organism2,
           organism2.vitality + (organism1.vitality \div 2)), <<>>>>

\* C3: two live meat eaters of different species fight: equal vitalities kill
\* both, otherwise the stronger gains floor(half the weaker's vitality) and
\* the weaker dies; there is no offspring.
C3_FightOutcome ==
  FightCase => (outcome = "returned" /\ ret = FightExpected)

FightFits ==
  /\ organism1.vitality + (organism2.vitality \div 2) <= MaxVitality
  /\ organism2.vitality + (organism1.vitality \div 2) <= MaxVitality

\* The same statement for the pairs whose winner's sum fits the width.
C3_FightOutcomeWithinRange ==
  (FightCase /\ FightFits) => (outcome = "returned" /\ ret = FightExpected)

PlantCase ==
  /\ Called /\ BothAlive
  /\ Organism1IsPlant # Organism2IsPlant

PlantExpected ==
  IF Organism2IsPlant
    THEN IF organism1.can_eat_plants
           THEN <<WithVitality(organism1,
                    organism1.vitality + organism2.vitality),
                  WithVitality(organism2, 0), <<>>>>
           ELSE Unchanged
    ELSE IF organism2.can_eat_plants
           THEN <<WithVitality(organism1, 0),
                  WithVitality(organism2,
                    organism2.vitality + organism1.vitality), <<>>>>
           ELSE Unchanged

\* C4: a live plant that meets a live plant eater, in either order, is
\* killed and the eater gains the plant's whole vitality, whichever is the
\* stronger; a carnivore and a plant come back unchanged; no offspring.
C4_PlantEaten ==
  PlantCase => (outcome = "returned" /\ ret = PlantExpected)

\* The same statement for the pairs whose sum of vitalities fits the width.
C4_PlantEatenWithinRange ==
  (PlantCase /\ organism1.vitality + organism2.vitality <= MaxVitality)
    => (outcome = "returned" /\ ret = PlantExpected)

\* Exactly one of two live animals can eat the other: one eats meat and the
\* other is a herbivore.
HuntCase ==
  /\ Called /\ BothAlive
  /\ ~Organism1IsPlant /\ ~Organism2IsPlant
  /\ organism1.can_eat_meat # organism2.can_eat_meat

HuntExpected ==
  IF organism1.can_eat_meat
    THEN IF organism2.vitality >= organism1.vitality THEN Unchanged
         ELSE <<WithVitality(organism1,
                  organism1.vitality + (organism2.vitality \div 2)),
                WithVitality(organism2, 0), <<>>>>
    ELSE IF organism1.vitality >= organism2.vitality THEN Unchanged
         ELSE <<WithVitality(organism1, 0),
                WithVitality(organism2,
                  organism2.vitality + (organism1.vitality \div 2)), <<>>>>

\* C5: when only one of two live animals can eat the other, a prey at least
\* as vital as the predator leaves both unchanged; a weaker prey dies and the
\* predator gains floor(half the prey's vitality); the prey never gains and
\* the predator never ends dead; no offspring.
C5_OneWayPredation ==
  HuntCase =>
    /\ outcome = "returned"
    /\ ret = HuntExpected
    /\ (organism1.can_eat_meat =>
          ret[1].vitality > 0 /\ ret[2].vitality <= organism2.vitality)
    /\ (organism2.can_eat_meat =>
          ret[2].vitality > 0 /\ ret[1].vitality <= organism1.vitality)

\* The same statement for the pairs whose predator's sum fits the width.
C5_OneWayPredationWithinRange ==
  (HuntCase /\ FightFits) =>
    /\ outcome = "returned"
    /\ ret = HuntExpected
    /\ (organism1.can_eat_meat =>
          ret[1].vitality > 0 /\ ret[2].vitality <= organism2.vitality)
    /\ (organism2.can_eat_meat =>
          ret[2].vitality > 0 /\ ret[1].vitality <= organism1.vitality)

\* Whether the rules kill a live party that meets a live `other`: a plant
\* that can be eaten, the loser (or either side of a draw) of a fight, or a
\* prey weaker than its predator.
KilledByRules(self, other) ==
  LET selfIsPlant == ~self.can_eat_meat /\ ~self.can_eat_plants
      sameSpecies == /\ self.species = other.species
                     /\ self.can_eat_meat = other.can_eat_meat
                     /\ self.can_eat_plants = other.can_eat_plants
  IN /\ self.vitality > 0 /\ other.vitality > 0 /\ ~sameSpecies
     /\ \/ selfIsPlant /\ other.can_eat_plants
        \/ /\ ~selfIsPlant /\ other.can_eat_meat
           /\ IF self.can_eat_meat THEN other.vitality >= self.vitality
              ELSE other.vitality > self.vitality

\* C8: vitality arithmetic never wraps: each returned party either was killed
\* and has vitality 0, or has at least its input vitality, and a party that
\* was not killed never ends with a vitality below its input (or 0).
C8_NoSilentWrap ==
  outcome = "returned" =>
    /\ IF KilledByRules(organism1, organism2) THEN ret[1].vitality = 0
       ELSE ret[1].vitality >= organism1.vitality
    /\ IF KilledByRules(organism2, organism1) THEN ret[2].vitality = 0
       ELSE ret[2].vitality >= organism2.vitality

\* The same statement for the pairs whose sum of vitalities fits the width.
C8_NoWrapWithinRange ==
  (outcome = "returned"
     /\ organism1.vitality + organism2.vitality <= MaxVitality) =>
    /\ IF KilledByRules(organism1, organism2) THEN ret[1].vitality = 0
       ELSE ret[1].vitality >= organism1.vitality
    /\ IF KilledByRules(organism2, organism1) THEN ret[2].vitality = 0
       ELSE ret[2].vitality >= organism2.vitality

\* C7: encounter(organism2, organism1) returns the two parties of
\* encounter(organism1, organism2) in swapped order, and an offspring exactly
\* when that call does, of equal species, diet and vitality.
C7_SwapCommutes ==
  Called =>
    LET swapped == encounter(organism2, organism1) IN
    /\ swapped.status = outcome
    /\ outcome = "returned" =>
         /\ swapped.value[1] = ret[2]
         /\ swapped.value[2] = ret[1]
         /\ Len(swapped.value[3]) = Len(ret[3])
         /\ Len(ret[3]) = 1 =>
              /\ swapped.value[3][1].species = ret[3][1].species
              /\ swapped.value[3][1].can_eat_meat = ret[3][1].can_eat_meat
              /\ swapped.value[3][1].can_eat_plants = ret[3][1].can_eat_plants
              /\ swapped.value[3][1].vitality = ret[3][1].vitality

\* A draw between two meat eaters of different diets: both die, whichever
\* comes first.
C7_Witness ==
  /\ outcome = "returned"
  /\ organism1.can_eat_meat /\ organism2.can_eat_meat /\ ~SameDiet
  /\ organism1.vitality = organism2.vitality /\ organism1.vitality > 0
  /\ ret[1].vitality = 0 /\ ret[2].vitality = 0

\* C9: a call with two plants is rejected whatever the species and the
\* vitalities, dead plants included, and yields no result; every other pair
\* of diets is accepted.
C9_TwoPlantsRejected ==
  Called =>
    /\ outcome = "rejected" <=> BothPlants
    /\ outcome = "rejected" => ret = <<>>

\* Two plants, one of them dead, were rejected.
C9_Witness ==
  /\ outcome = "rejected"
  /\ BothPlants
  /\ organism1.vitality = 0 /\ organism2.vitality > 0

\* C10: for every pair that is not two plants one of the rules returns a
\* result: the logic_error is never thrown.
C10_ThrowUnreachable ==
  /\ outcome # "thrown"
  /\ (Called /\ ~BothPlants) => (outcome = "returned" /\ Len(ret) = 3)

\* The last rule of the chain decided: a live herbivore met a stronger live
\* carnivore and was killed.
C10_Witness ==
  /\ outcome = "returned"
  /\ BothAlive
  /\ ~organism1.can_eat_meat /\ organism1.can_eat_plants
  /\ organism2.can_eat_meat /\ ~organism2.can_eat_plants
  /\ organism1.vitality < organism2.vitality
  /\ ret[1].vitality = 0

----------------------------------------------------------------------------
(* Properties of encounter_series *)

\* The left-to-right fold: x0 = x, x_i = get<0>(encounter(x_{i-1}, r_i)).
FoldEncounters(x, rs) ==
  LET step[i \in 0 .. Len(rs)] ==
        IF i = 0 THEN x ELSE encounter(step[i - 1], rs[i]).value[1]
  IN step[Len(rs)]

SeriesAccepted ==
  ~ /\ ~series_first.can_eat_meat /\ ~series_first.can_eat_plants
    /\ \E i \in 1 .. Len(series_args) :
         ~series_args[i].can_eat_meat /\ ~series_args[i].can_eat_plants

Reverse(rs) == [i \in 1 .. Len(rs) |-> rs[Len(rs) + 1 - i]]

\* C6: encounter_series(x, r1, ..., rn) returns the left-to-right fold of x
\* through encounter with r1, ..., rn, each taken as given; with n = 0 it
\* returns x.
C6_SeriesIsLeftFold ==
  (series_outcome # "pending" /\ SeriesAccepted) =>
    /\ series_outcome = "returned"
    /\ series_ret = <<FoldEncounters(series_first, series_args)>>
    /\ series_args = <<>> => series_ret = <<series_first>>

\* Two encounters whose order matters changed the first organism.
C6_Witness ==
  /\ series_outcome = "returned"
  /\ Len(series_args) = 2
  /\ SeriesAccepted
  /\ series_ret[1] # series_first
  /\ series_ret[1] # FoldEncounters(series_first, Reverse(series_args))

====
